---- MODULE Spec2Model ----
(***************************************************************************)
(* Model of FormBot's GForm class (src/src/gform.py):                      *)
(*   - create_mappings: compiles a form schema (rawdata) into X-path       *)
(*     locator mappings, writing the textarea default into the schema;     *)
(*   - fill: drives the browser session through navigate / prompt /        *)
(*     clear / text / radio / checkbox / submit / quit.                    *)
(* SpecCompile explores create_mappings over a bounded family of schemas;  *)
(* SpecFill explores one fill call on an object whose mappings were        *)
(* compiled (as main.py does: create_mappings, then fill).                 *)
(***************************************************************************)
EXTENDS Integers, Sequences, FiniteSets, TLC

VARIABLES
    rawdata,    \* the caller's schema dict (create_mappings mutates it)
    rawdata0,   \* ghost: the schema as the caller first supplied it
    mappings,   \* self.mappings (Unset until create_mappings succeeds)
    self_url,   \* self.url
    calls,      \* ghost: history of create_mappings calls and their outcomes
    pc,         \* position of the fill call
    opts,       \* fill's keyword arguments submit/interactive/review/clear
    cancel,     \* local variable cancel of fill
    t,          \* local variable t of fill
    idx,        \* position of the running for-loop of fill
    log,        \* ghost: session/operator events of this fill call, in order
    quits,      \* ghost: number of driver.quit() calls
    result      \* what the fill call gave its caller

compileVars == <<rawdata, rawdata0, mappings, self_url, calls>>
vars == <<rawdata, rawdata0, mappings, self_url, calls,
          pc, opts, cancel, t, idx, log, quits, result>>

-----------------------------------------------------------------------------
(* Bounds *)

MaxText == 2        \* text fields per schema (SpecCompile)
MaxCompiles == 3    \* create_mappings calls per behaviour
MaxFillText == 2    \* text fields of the mappings fill runs on
MaxFillRadio == 1   \* radio fields of the mappings fill runs on
MaxFillChoices == 1 \* chosen checkbox options of the mappings fill runs on
MaxElapsed == 1     \* largest value of time.time() - start

-----------------------------------------------------------------------------
(* Python values *)

None == <<"None">>              \* not a character sequence
Unset == [unset |-> TRUE]       \* attribute not assigned yet
Sentinel == -1                  \* t = -1, gform.py line 194

\* What a fill call gave its caller: nothing yet, an exception, or a value
NoResult == [kind |-> "none", value |-> 0]
Raised == [kind |-> "raised", value |-> 0]
Returned(v) == [kind |-> "returned", value |-> v]

Questions == <<"Email", "Name", "Org", "Phone">>
Responses == <<"r1", "r2", "r3", "r4">>
Choices == <<"exp-1", "exp-2", "exp-3", "exp-4">>

HasKey(d, k) == k \in DOMAIN d

\* d[k] = v on a dict held as a function
SetKey(d, k, v) == [x \in DOMAIN d \cup {k} |-> IF x = k THEN v ELSE d[x]]

\* Ordered dict as a sequence of <<key, value>>: d[k] = v keeps the position
\* of an existing key and appends a new one.
DictHas(d, k) == \E n \in 1..Len(d) : d[n][1] = k

DictSet(d, k, v) ==
    IF DictHas(d, k)
    THEN [n \in 1..Len(d) |-> IF d[n][1] = k THEN <<k, v>> ELSE d[n]]
    ELSE Append(d, <<k, v>>)

\* ' or '.join(parts)
RECURSIVE Join(_, _)
Join(sep, parts) ==
    IF parts = <<>> THEN ""
    ELSE IF Len(parts) = 1 THEN parts[1]
    ELSE parts[1] \o sep \o Join(sep, Tail(parts))

-----------------------------------------------------------------------------
(* Locator strings, gform.py lines 136-139, 146, 151, 157 *)

TypePredicate(types) ==
    Join(" or ", [n \in 1..Len(types) |-> "@type=\"" \o types[n] \o "\""])

InputLocator(question, types) ==
    "//span[contains(text(), \"" \o question \o "\")]/../../../..//input["
        \o TypePredicate(types) \o "]"

TextareaLocator(question) ==
    "//span[contains(text(), \"" \o question \o "\")]/../../../..//textarea"

UnionLocator(key, question) == key \o " | " \o TextareaLocator(question)

ChoiceLocator(choice) ==
    "//span[contains(text(), \"" \o choice \o "\")]/../../../../..//label"

-----------------------------------------------------------------------------
(* create_mappings, gform.py lines 123-162 *)

\* TextFieldStep with the textarea default stored as True while the call
\* itself decides by the exhaustive switch.
TextFieldStep_StoresTrue(question, meta, exhaustive, text) ==
    IF HasKey(meta, "types") /\ ~HasKey(meta, "response")
    THEN [raised |-> TRUE, text |-> text, meta |-> meta]
    ELSE LET text1 == IF HasKey(meta, "types")
                      THEN DictSet(text,
                                   InputLocator(question, meta["types"]),
                                   meta["response"])
                      ELSE text
             meta1 == IF ~HasKey(meta, "textarea")
                      THEN SetKey(meta, "textarea", TRUE)
                      ELSE meta
             flag == IF ~HasKey(meta, "textarea")
                     THEN exhaustive ELSE meta["textarea"]
         IN  IF flag = TRUE
             THEN IF text1 = <<>>
                  THEN [raised |-> TRUE, text |-> text1, meta |-> meta1]
                  ELSE LET last == text1[Len(text1)]
                           rest == SubSeq(text1, 1, Len(text1) - 1)
                       IN  [raised |-> FALSE,
                            text |-> DictSet(rest,
                                             UnionLocator(last[1], question),
                                             last[2]),
                            meta |-> meta1]
             ELSE [raised |-> FALSE, text |-> text1, meta |-> meta1]

\* One iteration of the text loop (lines 135-146) on the dict built so far.
\* raised: a KeyError left the loop; meta: the field's dict afterwards.
TextFieldStep(question, meta, exhaustive, text) ==
    IF HasKey(meta, "types") /\ ~HasKey(meta, "response")
    THEN [raised |-> TRUE, text |-> text, meta |-> meta]
    ELSE LET text1 == IF HasKey(meta, "types")
                      THEN DictSet(text,
                                   InputLocator(question, meta["types"]),
                                   meta["response"])
                      ELSE text
             meta1 == IF ~HasKey(meta, "textarea")
                      THEN SetKey(meta, "textarea", exhaustive)
                      ELSE meta
         IN  IF meta1["textarea"] = TRUE
             THEN IF text1 = <<>>
                  THEN [raised |-> TRUE, text |-> text1, meta |-> meta1]
                  ELSE LET last == text1[Len(text1)]
                           rest == SubSeq(text1, 1, Len(text1) - 1)
                       IN  [raised |-> FALSE,
                            text |-> DictSet(rest,
                                             UnionLocator(last[1], question),
                                             last[2]),
                            meta |-> meta1]
             ELSE [raised |-> FALSE, text |-> text1, meta |-> meta1]

\* The text loop, lines 133-146, from field n on.
RECURSIVE TextLoop(_, _, _, _)
TextLoop(fields, n, exhaustive, text) ==
    IF n > Len(fields)
    THEN [raised |-> FALSE, text |-> text, fields |-> fields]
    ELSE LET s == TextFieldStep(fields[n].question, fields[n].meta,
                                exhaustive, text)
             fields1 == [fields EXCEPT ![n].meta = s.meta]
         IN  IF s.raised
             THEN [raised |-> TRUE, text |-> s.text, fields |-> fields1]
             ELSE TextLoop(fields1, n + 1, exhaustive, s.text)

\* The radio loop, lines 148-152.
RECURSIVE RadioLoop(_, _, _)
RadioLoop(fields, n, radio) ==
    IF n > Len(fields) THEN [raised |-> FALSE, radio |-> radio]
    ELSE IF ~HasKey(fields[n].meta, "choice")
    THEN [raised |-> TRUE, radio |-> radio]
    ELSE RadioLoop(fields, n + 1,
                   Append(radio, ChoiceLocator(fields[n].meta["choice"])))

\* CheckboxLoop with each field's locators put in front of the list.
RECURSIVE CheckboxLoop_Prepends(_, _, _)
CheckboxLoop_Prepends(fields, n, checkbox) ==
    IF n > Len(fields) THEN [raised |-> FALSE, checkbox |-> checkbox]
    ELSE IF ~HasKey(fields[n].meta, "choices")
    THEN [raised |-> TRUE, checkbox |-> checkbox]
    ELSE LET cs == fields[n].meta["choices"]
         IN  CheckboxLoop_Prepends(fields, n + 1,
                 [m \in 1..Len(cs) |-> ChoiceLocator(cs[m])] \o checkbox)

\* The checkbox loop, lines 154-158.
RECURSIVE CheckboxLoop(_, _, _)
CheckboxLoop(fields, n, checkbox) ==
    IF n > Len(fields) THEN [raised |-> FALSE, checkbox |-> checkbox]
    ELSE IF ~HasKey(fields[n].meta, "choices")
    THEN [raised |-> TRUE, checkbox |-> checkbox]
    ELSE LET cs == fields[n].meta["choices"]
         IN  CheckboxLoop(fields, n + 1,
                 checkbox \o [m \in 1..Len(cs) |-> ChoiceLocator(cs[m])])

\* The whole method on schema rd: the mappings it builds, whether a KeyError
\* escaped, the schema as the call leaves it, and rawdata.get('url', None).
create_mappings(rd, exhaustive) ==
    LET tl == TextLoop(rd["text"], 1, exhaustive, <<>>)
        rl == RadioLoop(rd["radio"], 1, <<>>)
        cl == CheckboxLoop(rd["checkbox"], 1, <<>>)
        rd1 == [rd EXCEPT !["text"] = tl.fields]
    IN  [raised |-> tl.raised \/ rl.raised \/ cl.raised,
         rawdata |-> rd1,
         mappings |-> [text |-> tl.text, radio |-> rl.radio,
                       checkbox |-> cl.checkbox, fallbacks |-> <<>>],
         url |-> IF HasKey(rd, "url") THEN rd["url"] ELSE None]

-----------------------------------------------------------------------------
(* Schemas the caller may supply *)

HttpsUrl == <<"h", "t", "t", "p", "s", ":", "/", "/", "f">>
HttpUrl == <<"h", "t", "t", "p", ":", "/", "/", "f">>

\* A dict with the keys of ks, valued by vals
Meta(ks, vals) == [k \in ks |-> vals[k]]

TextMetas(n) ==
    { Meta(ks, [types |-> <<"text", "email">>, response |-> Responses[n],
                textarea |-> ta]) :
        ks \in SUBSET {"types", "response", "textarea"}, ta \in BOOLEAN }

RECURSIVE TextFields(_)
TextFields(n) ==
    IF n = 0 THEN { <<>> }
    ELSE TextFields(n - 1) \cup
         { Append(fs, [question |-> Questions[n], meta |-> m]) :
             fs \in { f \in TextFields(n - 1) : Len(f) = n - 1 },
             m \in TextMetas(n) }

RadioFields ==
    { <<>>,
      << [question |-> "Solvents", meta |-> [choice |-> "DMSO"]] >>,
      << [question |-> "Solvents",
          meta |-> [choice |-> "DMSO", choice_num |-> 6]] >>,
      << [question |-> "Solvents", meta |-> [choice_num |-> 6]] >>,
      << [question |-> "Solvents", meta |-> [choice |-> "DMSO"]],
         [question |-> "Ticket Type",
          meta |-> [choice |-> "Standard", choice_num |-> 1]] >> }

CheckboxFields ==
    { <<>>,
      << [question |-> "Experiments",
          meta |-> [choices |-> <<"exp-1", "exp-2">>]] >>,
      << [question |-> "Experiments", meta |-> [other |-> 0]] >>,
      << [question |-> "Experiments",
          meta |-> [choices |-> <<"exp-1", "exp-2">>]],
         [question |-> "Preferred Sessions",
          meta |-> [choices |-> <<"AI in Healthcare">>]] >> }

Schemas ==
    { [text |-> tf, radio |-> rf, checkbox |-> cf] :
        tf \in TextFields(MaxText), rf \in RadioFields,
        cf \in CheckboxFields }
    \cup
    { [text |-> tf, radio |-> rf, checkbox |-> cf, url |-> HttpsUrl] :
        tf \in TextFields(MaxText), rf \in RadioFields,
        cf \in CheckboxFields }

-----------------------------------------------------------------------------
(* SpecCompile: create_mappings called on one schema object *)

IdleFill ==
    /\ pc = "idle"
    /\ opts = [submit |-> TRUE, interactive |-> FALSE,
               review |-> FALSE, clear |-> FALSE]
    /\ cancel = FALSE
    /\ t = Sentinel
    /\ idx = 0
    /\ log = <<>>
    /\ quits = 0
    /\ result = NoResult

InitCompile ==
    /\ rawdata \in Schemas
    /\ rawdata0 = rawdata
    /\ mappings = Unset
    /\ self_url = Unset
    /\ calls = <<>>
    /\ IdleFill

\* gform.create_mappings(rawdata, exhaustive)
Compile(exhaustive) ==
    /\ Len(calls) < MaxCompiles
    /\ LET r == create_mappings(rawdata, exhaustive)
       IN  /\ rawdata' = r.rawdata
           /\ IF r.raised
              THEN /\ UNCHANGED <<mappings, self_url>>
                   /\ calls' = Append(calls, [exhaustive |-> exhaustive,
                                              before |-> rawdata,
                                              raised |-> TRUE,
                                              returned |-> Unset])
              ELSE /\ mappings' = r.mappings
                   /\ self_url' = r.url
                   /\ calls' = Append(calls, [exhaustive |-> exhaustive,
                                              before |-> rawdata,
                                              raised |-> FALSE,
                                              returned |-> r.mappings])
    /\ UNCHANGED <<rawdata0, pc, opts, cancel, t, idx, log, quits, result>>

CompileExhaustive == Compile(TRUE)

CompilePlain == Compile(FALSE)

NextCompile == CompileExhaustive \/ CompilePlain

SpecCompile == InitCompile /\ [][NextCompile]_vars

-----------------------------------------------------------------------------
(* fill, gform.py lines 191-279 *)

Ev(op, n, out) == [op |-> op, n |-> n, out |-> out]

Truthy(u) == u # None /\ u # <<>>

\* re.match(r'^https://.*$', url) on a url without line breaks
IsHttps(u) ==
    /\ Len(u) >= 8
    /\ SubSeq(u, 1, 8) = <<"h", "t", "t", "p", "s", ":", "/", "/">>

\* What a bounded wait plus the interaction on the element can come to
GetOutcomes == {"ok", "error"}
StartAnswers == {"enter", "q", "other", "eof"}
ReviewAnswers == {"enter", "q", "eof"}
CloseAnswers == {"enter", "eof"}
ButtonOutcomes == {"timeout", "click_error", "clicked"}
TextOutcomes == {"timeout", "interaction_error", "mismatch", "ok"}
RadioOutcomes == {"timeout", "selected", "clicked", "click_error"}
CheckboxOutcomes ==
    {"timeout", "not_found", "checked", "unreadable", "clicked",
     "click_error"}

\* get_attribute('aria-checked'): 'true', 'false', or None
AriaValues == {"true", "false", "none"}

\* The for-loop that runs next, from the text loop (1), the radio loop (2)
\* or the checkbox loop (3) on: a loop over an empty collection is passed.
LoopFrom(k) ==
    IF k <= 1 /\ mappings["text"] # <<>> THEN "text"
    ELSE IF k <= 2 /\ mappings["radio"] # <<>> THEN "radio"
    ELSE IF k <= 3 /\ mappings["checkbox"] # <<>> THEN "checkbox"
    ELSE "handle_submit"

\* Lines 191-195: the url override, the two asserts, t = -1, cancel = False.
\* A failed assert leaves fill before the try statement is entered.
FillCall(url, submit, interactive, review_before_submit, clear) ==
    /\ pc = "idle"
    /\ mappings # Unset
    /\ opts' = [submit |-> submit, interactive |-> interactive,
                review |-> review_before_submit, clear |-> clear]
    /\ self_url' = IF Truthy(url) THEN url ELSE self_url
    /\ IF Truthy(self_url') /\ IsHttps(self_url')
       THEN /\ pc' = "get"
            /\ result' = result
       ELSE /\ pc' = "done"
            /\ result' = Raised
    /\ t' = Sentinel
    /\ cancel' = FALSE
    /\ UNCHANGED <<rawdata, rawdata0, mappings, calls, idx, log, quits>>

\* Navigate with a failed driver.get swallowed.
Navigate_Swallowed ==
    /\ pc = "get"
    /\ \E o \in GetOutcomes :
        /\ log' = Append(log, Ev("get", 0, o))
        /\ pc' = "prefill"
    /\ UNCHANGED <<compileVars, opts, cancel, t, idx, quits, result>>

\* Line 197: self.driver.get(self.url)
Navigate ==
    /\ pc = "get"
    /\ \E o \in GetOutcomes :
        /\ log' = Append(log, Ev("get", 0, o))
        /\ pc' = IF o = "ok" THEN "prefill" ELSE "except"
    /\ UNCHANGED <<compileVars, opts, cancel, t, idx, quits, result>>

\* PreFill without the return on cancel.
PreFill_NoReturn ==
    /\ pc = "prefill"
    /\ IF opts.interactive
       THEN \E a \in StartAnswers :
               /\ log' = Append(log, Ev("prompt_start", 0, a))
               /\ cancel' = (a = "q")
               /\ pc' = IF a = "eof" THEN "except" ELSE "clear"
       ELSE /\ log' = log
            /\ cancel' = FALSE
            /\ pc' = "clear"
    /\ UNCHANGED <<compileVars, opts, t, idx, quits, result>>

\* Lines 198-203: the settle delay or the pre-fill prompt; return t on 'q'.
PreFill ==
    /\ pc = "prefill"
    /\ IF opts.interactive
       THEN \E a \in StartAnswers :
               /\ log' = Append(log, Ev("prompt_start", 0, a))
               /\ cancel' = (a = "q")
               /\ pc' = IF a = "eof" THEN "except"
                        ELSE IF a = "q" THEN "finally"
                        ELSE "clear"
       ELSE /\ log' = log
            /\ cancel' = FALSE
            /\ pc' = "clear"
    /\ UNCHANGED <<compileVars, opts, t, idx, quits, result>>

\* Lines 205-213: start = time.time(); the clear button when clear is set.
ClearForm ==
    /\ pc = "clear"
    /\ IF opts.clear
       THEN \E o \in ButtonOutcomes :
               /\ log' = Append(log, Ev("clear", 0, o))
               /\ pc' = IF o = "clicked" THEN LoopFrom(1) ELSE "except"
       ELSE /\ log' = log
            /\ pc' = LoopFrom(1)
    /\ idx' = 1
    /\ UNCHANGED <<compileVars, opts, cancel, t, quits, result>>

\* TextField without the try/except around the iteration.
TextField_Unguarded ==
    /\ pc = "text"
    /\ \E o \in TextOutcomes :
        /\ log' = Append(log, Ev("text", idx, o))
        /\ IF o # "ok"
           THEN /\ idx' = idx
                /\ pc' = "except"
           ELSE IF idx < Len(mappings["text"])
           THEN /\ idx' = idx + 1
                /\ pc' = pc
           ELSE /\ idx' = 1
                /\ pc' = LoopFrom(2)
    /\ UNCHANGED <<compileVars, opts, cancel, t, quits, result>>

\* TextField walking the text dict from its last entry to its first.
TextField_Reversed ==
    /\ pc = "text"
    /\ \E o \in TextOutcomes :
        log' = Append(log, Ev("text", Len(mappings["text"]) - idx + 1, o))
    /\ IF idx < Len(mappings["text"])
       THEN /\ idx' = idx + 1
            /\ pc' = pc
       ELSE /\ idx' = 1
            /\ pc' = LoopFrom(2)
    /\ UNCHANGED <<compileVars, opts, cancel, t, quits, result>>

\* Lines 216-228: one iteration of the text loop.
TextField ==
    /\ pc = "text"
    /\ \E o \in TextOutcomes :
        log' = Append(log, Ev("text", idx, o))
    /\ IF idx < Len(mappings["text"])
       THEN /\ idx' = idx + 1
            /\ pc' = pc
       ELSE /\ idx' = 1
            /\ pc' = LoopFrom(2)
    /\ UNCHANGED <<compileVars, opts, cancel, t, quits, result>>

\* Lines 233-237 on entry n: the wait, is_selected(), the click when the
\* option is not selected.  A click is logged with the state that was read.
RadioAttempt(n, located, selected, clickOk) ==
    IF ~located THEN << Ev("radio", n, "timeout") >>
    ELSE IF ~selected
    THEN << Ev("radio_click", n,
               IF selected THEN "selected" ELSE "unselected"),
            Ev("radio", n, IF clickOk THEN "clicked" ELSE "click_error") >>
    ELSE << Ev("radio", n, "selected") >>

\* Lines 231-241: one iteration of the radio loop.
RadioField ==
    /\ pc = "radio"
    /\ \E located, selected, clickOk \in BOOLEAN :
        log' = log \o RadioAttempt(idx, located, selected, clickOk)
    /\ log'[Len(log')].out \in RadioOutcomes
    /\ IF idx < Len(mappings["radio"])
       THEN /\ idx' = idx + 1
            /\ pc' = pc
       ELSE /\ idx' = 1
            /\ pc' = LoopFrom(3)
    /\ UNCHANGED <<compileVars, opts, cancel, t, quits, result>>

\* CheckboxAttempt clicking whenever aria-checked does not read "true".
CheckboxAttempt_UnlessChecked(n, located, found, aria, clickOk) ==
    IF ~located THEN << Ev("checkbox", n, "timeout") >>
    ELSE IF ~found THEN << Ev("checkbox", n, "not_found") >>
    ELSE IF aria # "true"
    THEN << Ev("checkbox_click", n, aria),
            Ev("checkbox", n,
               IF clickOk THEN "clicked" ELSE "click_error") >>
    ELSE << Ev("checkbox", n, "checked") >>

\* Lines 246-253 on entry n: the wait for the label, find_element by the
\* label's 'for' id, aria-checked, the click when it reads 'false'.  A click
\* is logged with the attribute value that was read.
CheckboxAttempt(n, located, found, aria, clickOk) ==
    IF ~located THEN << Ev("checkbox", n, "timeout") >>
    ELSE IF ~found THEN << Ev("checkbox", n, "not_found") >>
    ELSE IF aria = "false"
    THEN << Ev("checkbox_click", n, aria),
            Ev("checkbox", n,
               IF clickOk THEN "clicked" ELSE "click_error") >>
    ELSE << Ev("checkbox", n,
               IF aria = "true" THEN "checked" ELSE "unreadable") >>

\* Lines 244-257: one iteration of the checkbox loop.
CheckboxField ==
    /\ pc = "checkbox"
    /\ \E located, found, clickOk \in BOOLEAN :
       \E aria \in AriaValues :
           log' = log \o CheckboxAttempt(idx, located, found, aria, clickOk)
    /\ log'[Len(log')].out \in CheckboxOutcomes
    /\ IF idx < Len(mappings["checkbox"])
       THEN /\ idx' = idx + 1
            /\ pc' = pc
       ELSE /\ idx' = 1
            /\ pc' = LoopFrom(4)
    /\ UNCHANGED <<compileVars, opts, cancel, t, quits, result>>

\* HandleSubmit showing the review prompt without asking for interactive.
HandleSubmit_ReviewOnly ==
    /\ pc = "handle_submit"
    /\ IF ~opts.submit
       THEN /\ log' = log
            /\ cancel' = cancel
            /\ pc' = "elapsed"
       ELSE IF opts.review
       THEN \E a \in ReviewAnswers :
               /\ log' = Append(log, Ev("prompt_review", 0, a))
               /\ cancel' = IF a = "eof" THEN cancel ELSE (a = "q")
               /\ pc' = IF a = "eof" THEN "except"
                        ELSE IF a = "q" THEN "elapsed"
                        ELSE "submit"
       ELSE /\ log' = log
            /\ cancel' = cancel
            /\ pc' = IF cancel THEN "elapsed" ELSE "submit"
    /\ UNCHANGED <<compileVars, opts, t, idx, quits, result>>

\* HandleSubmit without the test of cancel before the submit button.
HandleSubmit_IgnoresCancel ==
    /\ pc = "handle_submit"
    /\ IF ~opts.submit
       THEN /\ log' = log
            /\ cancel' = cancel
            /\ pc' = "elapsed"
       ELSE IF opts.review /\ opts.interactive
       THEN \E a \in ReviewAnswers :
               /\ log' = Append(log, Ev("prompt_review", 0, a))
               /\ cancel' = IF a = "eof" THEN cancel ELSE (a = "q")
               /\ pc' = IF a = "eof" THEN "except" ELSE "submit"
       ELSE /\ log' = log
            /\ cancel' = cancel
            /\ pc' = "submit"
    /\ UNCHANGED <<compileVars, opts, t, idx, quits, result>>

\* Lines 262-266: if submit, the review prompt when asked for.
HandleSubmit ==
    /\ pc = "handle_submit"
    /\ IF ~opts.submit
       THEN /\ log' = log
            /\ cancel' = cancel
            /\ pc' = "elapsed"
       ELSE IF opts.review /\ opts.interactive
       THEN \E a \in ReviewAnswers :
               /\ log' = Append(log, Ev("prompt_review", 0, a))
               /\ cancel' = IF a = "eof" THEN cancel ELSE (a = "q")
               /\ pc' = IF a = "eof" THEN "except"
                        ELSE IF a = "q" THEN "elapsed"
                        ELSE "submit"
       ELSE /\ log' = log
            /\ cancel' = cancel
            /\ pc' = IF cancel THEN "elapsed" ELSE "submit"
    /\ UNCHANGED <<compileVars, opts, t, idx, quits, result>>

\* SubmitClick with a failure of the submit button swallowed.
SubmitClick_Swallowed ==
    /\ pc = "submit"
    /\ \E o \in ButtonOutcomes :
        /\ log' = Append(log, Ev("submit", 0, o))
        /\ pc' = "elapsed"
    /\ UNCHANGED <<compileVars, opts, cancel, t, idx, quits, result>>

\* Lines 267-271: wait for the submit button and click it.
SubmitClick ==
    /\ pc = "submit"
    /\ \E o \in ButtonOutcomes :
        /\ log' = Append(log, Ev("submit", 0, o))
        /\ pc' = IF o = "clicked" THEN "elapsed" ELSE "except"
    /\ UNCHANGED <<compileVars, opts, cancel, t, idx, quits, result>>

\* Line 272: t = time.time() - start
Elapsed ==
    /\ pc = "elapsed"
    /\ \E d \in 0..MaxElapsed : t' = d
    /\ pc' = IF opts.interactive THEN "close" ELSE "finally"
    /\ UNCHANGED <<compileVars, opts, cancel, idx, log, quits, result>>

\* Line 273: the prompt before the browser is closed (interactive only).
ClosePrompt ==
    /\ pc = "close"
    /\ \E a \in CloseAnswers :
        /\ log' = Append(log, Ev("prompt_close", 0, a))
        /\ pc' = IF a = "eof" THEN "except" ELSE "finally"
    /\ UNCHANGED <<compileVars, opts, cancel, t, idx, quits, result>>

\* Lines 275-276: except Exception: logger.error(...)
Except ==
    /\ pc = "except"
    /\ log' = Append(log, Ev("error", 0, "logged"))
    /\ pc' = "finally"
    /\ UNCHANGED <<compileVars, opts, cancel, t, idx, quits, result>>

\* Lines 277-279: finally: self.driver.quit(); return t
Finally ==
    /\ pc = "finally"
    /\ quits' = quits + 1
    /\ log' = Append(log, Ev("quit", 0, "ok"))
    /\ result' = Returned(t)
    /\ pc' = "done"
    /\ UNCHANGED <<compileVars, opts, cancel, t, idx>>

-----------------------------------------------------------------------------
(* SpecFill: one fill call on an object whose mappings were compiled *)

UrlArguments == {None, <<>>, HttpUrl, HttpsUrl}

FillText(n) ==
    [m \in 1..n |-> [question |-> Questions[m],
                     meta |-> [types |-> <<"text">>,
                               response |-> Responses[m]]]]

FillSchemas ==
    { [k \in {"text", "radio", "checkbox"} \cup (IF u = None THEN {} ELSE {"url"})
         |-> CASE k = "text" -> FillText(nt)
               [] k = "radio" ->
                    [m \in 1..nr |-> [question |-> Questions[m],
                                      meta |-> [choice |-> Choices[m]]]]
               [] k = "checkbox" ->
                    IF nc = 0 THEN <<>>
                    ELSE << [question |-> "Experiments",
                             meta |-> [choices |->
                                         [m \in 1..nc |-> Choices[m]]]] >>
               [] k = "url" -> u] :
        nt \in 0..MaxFillText, nr \in 0..MaxFillRadio,
        nc \in 0..MaxFillChoices, u \in {None, HttpsUrl} }

InitFill ==
    /\ rawdata0 \in FillSchemas
    /\ LET r == create_mappings(rawdata0, FALSE)
       IN  /\ rawdata = r.rawdata
           /\ mappings = r.mappings
           /\ self_url = r.url
           /\ calls = << [exhaustive |-> FALSE, before |-> rawdata0,
                          raised |-> FALSE, returned |-> r.mappings] >>
    /\ IdleFill

NextFill ==
    \/ \E url \in UrlArguments :
       \E submit, interactive, review_before_submit, clear \in BOOLEAN :
           FillCall(url, submit, interactive, review_before_submit, clear)
    \/ Navigate
    \/ PreFill
    \/ ClearForm
    \/ TextField
    \/ RadioField
    \/ CheckboxField
    \/ HandleSubmit
    \/ SubmitClick
    \/ Elapsed
    \/ ClosePrompt
    \/ Except
    \/ Finally

SpecFill == InitFill /\ [][NextFill]_vars

\* The caller calls fill, every bounded wait ends and the operator answers
\* every prompt: a step of the call that can be taken is taken.
SpecFillLive == SpecFill /\ WF_vars(NextFill)

-----------------------------------------------------------------------------
(* Properties of fill *)

Has(op) == \E k \in 1..Len(log) : log[k].op = op

HasEv(op, out) == \E k \in 1..Len(log) : log[k].op = op /\ log[k].out = out

\* Number of attempts logged for entry n of the collection op
Attempts(op, n) ==
    Cardinality({k \in 1..Len(log) : log[k].op = op /\ log[k].n = n})

\* Every entry of the mappings has been attempted.
AllAttempted ==
    \A op \in {"text", "radio", "checkbox"} :
        \A n \in 1..Len(mappings[op]) : Attempts(op, n) >= 1

NoFieldAction == ~Has("text") /\ ~Has("radio") /\ ~Has("checkbox")

ValidUrl == Truthy(self_url) /\ IsHttps(self_url)

ClearFailed == HasEv("clear", "timeout") \/ HasEv("clear", "click_error")

SubmitFailed == HasEv("submit", "timeout") \/ HasEv("submit", "click_error")

\* The call got past navigation, the pre-fill checkpoint and the clear step.
FillingBegan ==
    /\ pc \notin {"idle", "get", "prefill", "clear"}
    /\ result # Raised
    /\ HasEv("get", "ok")
    /\ ~HasEv("prompt_start", "q")
    /\ ~HasEv("prompt_start", "eof")
    /\ ~ClearFailed

LoopsOver == pc \notin {"idle", "get", "prefill", "clear",
                        "text", "radio", "checkbox"}

\* The terminal states of the fill state machine, read off the events.
CancelledPreFill == HasEv("prompt_start", "q")

CancelledPreSubmit == HasEv("prompt_review", "q")

AbortedRun ==
    \/ ~ValidUrl
    \/ HasEv("get", "error")
    \/ HasEv("prompt_start", "eof")
    \/ ClearFailed
    \/ HasEv("prompt_review", "eof")
    \/ SubmitFailed

\* C1 (as claimed): when a fill call is over, whether it returned or raised,
\* driver.quit() has been called exactly once.
C1_ReleasedExactlyOnce == pc = "done" => quits = 1

\* C2 (as claimed): a fill call whose effective url is absent or not https
\* returns -1 rather than raising, and performs no navigation, field or
\* submit action.
C2_InvalidUrlSentinel ==
    (pc = "done" /\ ~ValidUrl) =>
        /\ result = Returned(Sentinel)
        /\ ~Has("get") /\ NoFieldAction /\ ~Has("submit")

\* C3: in interactive mode, once the operator answers 'q' at the pre-fill
\* prompt no clear, text, radio, checkbox or submit action is ever performed,
\* and the call returns -1 with driver.quit() called exactly once.
C3_PreFillCancel ==
    (opts.interactive /\ CancelledPreFill) =>
        /\ ~Has("clear") /\ NoFieldAction /\ ~Has("submit")
        /\ result # Raised
        /\ quits <= 1
        /\ pc = "done" => (result = Returned(Sentinel) /\ quits = 1)

C3_Witness ==
    /\ pc = "done"
    /\ opts.interactive /\ opts.clear /\ opts.submit
    /\ CancelledPreFill
    /\ Len(mappings["text"]) = MaxFillText
    /\ result = Returned(Sentinel)

\* C4: once filling began, whichever text, radio and checkbox attempts fail
\* (timeout, interaction error, value mismatch, id lookup), every entry of
\* the mappings has been attempted when the loops are over; and when the
\* call is over with submit requested and the review prompt, if shown,
\* answered other than 'q', the submit button has been attempted.
C4_PartialFailureTolerance ==
    FillingBegan =>
        /\ LoopsOver => AllAttempted
        /\ (/\ pc = "done"
            /\ opts.submit
            /\ ~CancelledPreSubmit
            /\ ~HasEv("prompt_review", "eof")) => Has("submit")

C4_Witness ==
    /\ pc = "done"
    /\ HasEv("text", "timeout") /\ HasEv("text", "mismatch")
    /\ Attempts("text", 1) = 1 /\ log[2] = Ev("text", 1, "timeout")
    /\ Len(mappings["text"]) = MaxFillText
    /\ HasEv("radio", "click_error")
    /\ HasEv("checkbox", "not_found")
    /\ HasEv("submit", "clicked")

\* C5: when driver.get fails, no prompt, clear, field or submit action
\* follows, nothing is raised to the caller, and the call returns -1 with
\* driver.quit() called exactly once.
C5_NavigationFailure ==
    HasEv("get", "error") =>
        /\ ~Has("prompt_start") /\ ~Has("prompt_review")
        /\ ~Has("prompt_close")
        /\ ~Has("clear") /\ NoFieldAction /\ ~Has("submit")
        /\ result # Raised
        /\ quits <= 1
        /\ pc = "done" => (result = Returned(Sentinel) /\ quits = 1)

C5_Witness ==
    /\ pc = "done"
    /\ HasEv("get", "error")
    /\ opts.interactive /\ opts.clear /\ opts.submit
    /\ mappings["text"] # <<>>
    /\ result = Returned(Sentinel)

\* C6 (as claimed): when clear was requested and the clear button could not
\* be located or clicked, every entry is still attempted, submit is still
\* attempted when requested and not declined, and the call returns -1 only
\* if something other than the clear step failed.
C6_ClearBestEffort ==
    (pc = "done" /\ opts.clear /\ ClearFailed) =>
        /\ AllAttempted
        /\ (opts.submit /\ ~CancelledPreSubmit
              /\ ~HasEv("prompt_review", "eof")) => Has("submit")
        /\ result = Returned(Sentinel) =>
              (SubmitFailed \/ HasEv("prompt_review", "eof"))

\* C7 (as claimed): a finished fill call returns an elapsed time exactly when
\* filling was gone through and then submit was not requested, or was
\* clicked, or was declined at the review prompt; it returns -1 exactly when
\* the run was cancelled at the pre-fill prompt or aborted; a declined
\* review never clicks submit and still yields the elapsed time and the
\* release of the session.
C7_ReturnValue ==
    pc = "done" =>
        /\ (result.kind = "returned" /\ result.value # Sentinel)
             <=> (/\ FillingBegan /\ AllAttempted
                  /\ \/ ~opts.submit
                     \/ HasEv("submit", "clicked")
                     \/ CancelledPreSubmit)
        /\ (result = Returned(Sentinel))
             <=> (CancelledPreFill \/ AbortedRun)
        /\ CancelledPreSubmit =>
             /\ ~Has("submit")
             /\ result.kind = "returned" /\ result.value >= 0
             /\ quits = 1

-----------------------------------------------------------------------------
(* Properties of create_mappings *)

TextComplete(meta) == HasKey(meta, "types") /\ HasKey(meta, "response")

\* Every field declaration of schema rd carries its required keys.
WellFormed(rd) ==
    /\ \A n \in 1..Len(rd["text"]) : TextComplete(rd["text"][n].meta)
    /\ \A n \in 1..Len(rd["radio"]) : HasKey(rd["radio"][n].meta, "choice")
    /\ \A n \in 1..Len(rd["checkbox"]) :
           HasKey(rd["checkbox"][n].meta, "choices")

\* No text field of schema rd carries a textarea flag.
NoOverride(rd) ==
    \A n \in 1..Len(rd["text"]) : ~HasKey(rd["text"][n].meta, "textarea")

\* The text entries the exhaustive switch should give a well-formed schema.
UnionEntries(rd) ==
    [n \in 1..Len(rd["text"]) |->
        << UnionLocator(InputLocator(rd["text"][n].question,
                                     rd["text"][n].meta["types"]),
                        rd["text"][n].question),
           rd["text"][n].meta["response"] >>]

\* C8 (as claimed): a create_mappings call on a schema with a field
\* declaration that lacks a required key fails, and returns no mappings.
C8_MalformedRejected ==
    \A n \in 1..Len(calls) :
        ~WellFormed(calls[n].before) =>
            calls[n].raised /\ calls[n].returned = Unset

\* C9 (as claimed): every exhaustive create_mappings call on a well-formed
\* schema that the caller gave no textarea flags returns, for every text
\* field in order, the union of its input and textarea locators with the
\* field's own response, whatever calls came before on the same schema.
C9_ExhaustiveUnion ==
    \A n \in 1..Len(calls) :
        (calls[n].exhaustive /\ WellFormed(rawdata0) /\ NoOverride(rawdata0))
            => /\ ~calls[n].raised
               /\ calls[n].returned["text"] = UnionEntries(rawdata0)

\* C10: two create_mappings calls on the same schema object with the same
\* exhaustive flag have the same outcome: both fail, or both return the same
\* text entries in the same order and the same radio and checkbox sequences.
C10_Deterministic ==
    \A m, n \in 1..Len(calls) :
        calls[m].exhaustive = calls[n].exhaustive =>
            /\ calls[m].raised = calls[n].raised
            /\ calls[m].returned = calls[n].returned

\* Two successful calls with the same flag, apart from a call with the other
\* flag, on a schema with text fields that left the textarea flag open.
C10_Witness ==
    /\ Len(calls) = 3
    /\ calls[1].exhaustive = calls[3].exhaustive
    /\ calls[2].exhaustive # calls[1].exhaustive
    /\ ~calls[3].raised
    /\ Len(calls[3].returned["text"]) = MaxText
    /\ NoOverride(rawdata0)
    /\ calls[3].returned["radio"] # <<>>
    /\ calls[3].returned["checkbox"] # <<>>

\* Number of chosen options of the checkbox fields before field n
RECURSIVE ChoicesBefore(_, _)
ChoicesBefore(fields, n) ==
    IF n <= 1 THEN 0
    ELSE ChoicesBefore(fields, n - 1)
             + Len(fields[n - 1].meta["choices"])

\* C11: a successful create_mappings call returns a radio sequence with
\* exactly one entry per radio field, in schema order, each the option
\* locator of that field's choice, and a checkbox sequence that holds, for
\* the checkbox fields in schema order, one option locator per chosen label
\* in the order the choices are listed.
C11_ChoiceSequences ==
    \A c \in 1..Len(calls) :
        ~calls[c].raised =>
            LET rf == calls[c].before["radio"]
                cf == calls[c].before["checkbox"]
                radio == calls[c].returned["radio"]
                checkbox == calls[c].returned["checkbox"]
            IN  /\ Len(radio) = Len(rf)
                /\ \A n \in 1..Len(rf) :
                       radio[n] = ChoiceLocator(rf[n].meta["choice"])
                /\ Len(checkbox) = ChoicesBefore(cf, Len(cf) + 1)
                /\ \A n \in 1..Len(cf) :
                       \A m \in 1..Len(cf[n].meta["choices"]) :
                           checkbox[ChoicesBefore(cf, n) + m]
                               = ChoiceLocator(cf[n].meta["choices"][m])

\* A successful call on a schema with two radio fields and two checkbox
\* fields, the first with choices exp-1, exp-2.
C11_Witness ==
    \E c \in 1..Len(calls) :
        /\ ~calls[c].raised
        /\ Len(calls[c].before["radio"]) = 2
        /\ Len(calls[c].before["checkbox"]) = 2
        /\ calls[c].returned["radio"] =
               << ChoiceLocator("DMSO"), ChoiceLocator("Standard") >>
        /\ SubSeq(calls[c].returned["checkbox"], 1, 2) =
               << ChoiceLocator("exp-1"), ChoiceLocator("exp-2") >>

\* C12 (as claimed): when a create_mappings call has returned, the caller's
\* schema is as it was before the call: every field declaration keeps
\* exactly its keys and values.
C12_SchemaUnchanged ==
    (calls # <<>> /\ ~calls[Len(calls)].raised) =>
        rawdata = calls[Len(calls)].before

\* C13 (as claimed): after a successful create_mappings call the text
\* mapping has exactly one entry per text field of the schema, in schema
\* order, whose locator is built from that field's own label (the input
\* locator, or its union with the textarea locator of the same label) and
\* whose value is that field's own response.
C13_OneEntryPerTextField ==
    \A c \in 1..Len(calls) :
        ~calls[c].raised =>
            LET tf == calls[c].before["text"]
                text == calls[c].returned["text"]
            IN  /\ Len(text) = Len(tf)
                /\ \A n \in 1..Len(tf) :
                       /\ TextComplete(tf[n].meta)
                       /\ text[n][2] = tf[n].meta["response"]
                       /\ LET own == InputLocator(tf[n].question,
                                                  tf[n].meta["types"])
                          IN  text[n][1] \in
                                {own, UnionLocator(own, tf[n].question)}

-----------------------------------------------------------------------------
(* Further properties of fill *)

FieldOps == {"clear", "text", "radio", "checkbox"}

PromptOps == {"prompt_start", "prompt_review", "prompt_close"}

IsFieldEvent(e) == e.op \in FieldOps

\* The clear and field attempts of the log, in the order they were made
AttemptOrder ==
    LET evs == SelectSeq(log, IsFieldEvent)
    IN  [k \in 1..Len(evs) |-> <<evs[k].op, evs[k].n>>]

\* The order fill is to follow on the mappings at hand
MappingOrder ==
    (IF opts.clear THEN << <<"clear", 0>> >> ELSE <<>>)
        \o [n \in 1..Len(mappings["text"]) |-> <<"text", n>>]
        \o [n \in 1..Len(mappings["radio"]) |-> <<"radio", n>>]
        \o [n \in 1..Len(mappings["checkbox"]) |-> <<"checkbox", n>>]

IsPrefix(a, b) == Len(a) <= Len(b) /\ SubSeq(b, 1, Len(a)) = a

\* C14: when the submit button cannot be located or clicked, nothing is
\* raised to the caller and the call returns -1, also when every field was
\* filled, with driver.quit() called once.
C14_SubmitFailure ==
    SubmitFailed =>
        /\ result # Raised
        /\ quits <= 1
        /\ pc = "done" => (result = Returned(Sentinel) /\ quits = 1)

C14_Witness ==
    /\ pc = "done"
    /\ HasEv("submit", "timeout")
    /\ Len(mappings["text"]) = MaxFillText
    /\ \A n \in 1..Len(mappings["text"]) :
           \E k \in 1..Len(log) : log[k] = Ev("text", n, "ok")
    /\ HasEv("radio", "clicked") /\ HasEv("checkbox", "clicked")
    /\ result = Returned(Sentinel)
    /\ quits = 1

\* C15: at every moment of a fill call the clear and field attempts made so
\* far are an initial part of: the clear click if requested, then the text
\* entries in mapping order, the radio entries in mapping order, the
\* checkbox entries in mapping order; once filling began and the loops are
\* over they are exactly that sequence, each entry attempted once.
C15_FillOrder ==
    /\ IsPrefix(AttemptOrder, MappingOrder)
    /\ (FillingBegan /\ LoopsOver) => AttemptOrder = MappingOrder

C15_Witness ==
    /\ pc = "done"
    /\ opts.clear
    /\ Len(mappings["text"]) = MaxFillText
    /\ mappings["radio"] # <<>> /\ mappings["checkbox"] # <<>>
    /\ HasEv("text", "timeout")
    /\ HasEv("radio", "timeout")
    /\ AttemptOrder = MappingOrder

\* C16: the pre-fill prompt is shown only in interactive mode and the review
\* prompt only when submit, review_before_submit and interactive are all
\* set; without interactive no prompt is shown and cancel stays false;
\* cancel is set only by 'q' at one of the two prompts; no prompt falls
\* between the first and the last field attempt, and once filling began
\* every entry has been attempted when the loops are over.
C16_Checkpoints ==
    /\ Has("prompt_start") => opts.interactive
    /\ Has("prompt_review") =>
           (opts.submit /\ opts.review /\ opts.interactive)
    /\ ~opts.interactive =>
           /\ \A k \in 1..Len(log) : log[k].op \notin PromptOps
           /\ ~cancel
    /\ cancel => (CancelledPreFill \/ CancelledPreSubmit)
    /\ \A j, k \in 1..Len(log) :
           (log[k].op \in FieldOps) =>
               /\ log[j].op = "prompt_start" => j < k
               /\ log[j].op \in {"prompt_review", "prompt_close"} => k < j
    /\ (FillingBegan /\ LoopsOver) => AllAttempted

C16_Witness ==
    /\ pc = "done"
    /\ ~opts.interactive /\ opts.review /\ opts.submit /\ opts.clear
    /\ Len(mappings["text"]) = MaxFillText
    /\ HasEv("submit", "clicked")
    /\ result.kind = "returned" /\ result.value # Sentinel

\* C17: the submit button is waited for at most once in a fill call, and
\* only when submit was requested, neither prompt was answered 'q',
\* driver.get succeeded and every text, radio and checkbox entry has been
\* attempted; without submit it is never waited for.
C17_SubmitOnce ==
    /\ Attempts("submit", 0) <= 1
    /\ Has("submit") =>
           /\ opts.submit
           /\ ~CancelledPreFill /\ ~CancelledPreSubmit
           /\ HasEv("get", "ok")
           /\ AllAttempted

C17_Witness ==
    /\ pc = "done"
    /\ opts.interactive /\ opts.review /\ opts.submit
    /\ HasEv("prompt_review", "enter")
    /\ HasEv("submit", "clicked")
    /\ Len(mappings["text"]) = MaxFillText
    /\ mappings["radio"] # <<>> /\ mappings["checkbox"] # <<>>

\* C18: a radio option is clicked only when is_selected() read false and a
\* checkbox label only when aria-checked read 'false'; an entry found
\* selected, checked or unreadable is not clicked, and no entry is clicked
\* more than once.
C18_TowardsSelected ==
    /\ \A k \in 1..Len(log) :
           /\ log[k].op = "radio_click" => log[k].out = "unselected"
           /\ log[k].op = "checkbox_click" => log[k].out = "false"
           /\ log[k].op = "radio" /\ log[k].out = "selected" =>
                  Attempts("radio_click", log[k].n) = 0
           /\ (log[k].op = "checkbox"
                 /\ log[k].out \in {"checked", "unreadable"}) =>
                  Attempts("checkbox_click", log[k].n) = 0
    /\ \A n \in 1..Len(mappings["radio"]) : Attempts("radio_click", n) <= 1
    /\ \A n \in 1..Len(mappings["checkbox"]) :
           Attempts("checkbox_click", n) <= 1

C18_Witness ==
    /\ pc = "done"
    /\ HasEv("radio_click", "unselected")
    /\ HasEv("checkbox_click", "false")
    /\ Len(mappings["text"]) = MaxFillText
    /\ HasEv("submit", "clicked")

\* C19 (as claimed): with every wait ending and every prompt answered, a
\* fill call eventually is over and has returned a result to its caller.
C19_ReturnsResult == <>(pc = "done" /\ result.kind = "returned")

====
